---------------------------- MODULE Spec2Model ----------------------------
(***************************************************************************)
(* A model of django-post_office's glue code:                              *)
(*   - CommaSeparatedEmailField (fields.py): get_prep_value / to_python /  *)
(*     from_db_value;                                                      *)
(*   - the template engine selector get_template_engine and the rendering  *)
(*     done by Email.email_message (exercised by tests/test_render.py);    *)
(*   - EmailTemplateAdminFormSet.clean and EmailAdmin.requeue (admin.py);  *)
(*   - setup_loghandlers / _has_effective_handler (logutils.py).           *)
(* Strings are sequences of one-character strings; a Python value is a     *)
(* record [kind, v] so that a str and a list are never confused.           *)
(***************************************************************************)
EXTENDS Integers, Sequences, FiniteSets

VARIABLES
    value, prepped, parsed, fop,          \* CommaSeparatedEmailField
    engines, preferred, selected,         \* TEMPLATES, POST_OFFICE['TEMPLATE_ENGINE']
    template, context, message,           \* EmailTemplate, Email.context, email_message()
    forms, cleanResult,                   \* EmailTemplateAdminFormSet
    emails, selection, mailOp,            \* Email rows, the admin action's queryset
    depth, handlers, level,               \* the 'post_office' logger and its ancestors
    pc, cur, arg, steps, calls, added, outcome, handlersAtCall, levelAtCall

fieldVars == <<value, prepped, parsed, fop>>
engineVars == <<engines, preferred, selected>>
renderVars == <<template, context, message>>
formVars == <<forms, cleanResult>>
mailVars == <<emails, selection, mailOp>>
logVars == <<depth, handlers, level, pc, cur, arg, steps, calls, added, outcome,
             handlersAtCall, levelAtCall>>

vars == <<fieldVars, engineVars, renderVars, formVars, mailVars, logVars>>

(***************************************************************************)
(* Bounds of the model.                                                    *)
(***************************************************************************)
MaxStrLen == 4
MaxElemLen == 2
MaxListLen == 2
MaxEngines == 2
MaxTokens == 2
MaxForms == 3
MaxEmails == 3
MaxDepth == 3
MaxCalls == 3

(***************************************************************************)
(* Characters and strings.                                                 *)
(***************************************************************************)
Chars == {"a", " ", ","}
Whitespace == {" "}
Comma == ","

StringsUpTo(n) == UNION {[1..k -> Chars] : k \in 0..n}
ListsUpTo(n, m) == UNION {[1..k -> StringsUpTo(m)] : k \in 0..n}

PyStr(s) == [kind |-> "str", v |-> s]
PyList(l) == [kind |-> "list", v |-> l]
PyNone == [kind |-> "none", v |-> <<>>]
Unset == [kind |-> "unset", v |-> <<>>]

(***************************************************************************)
(* str.strip: drop leading, then trailing, whitespace.                     *)
(***************************************************************************)
RECURSIVE LStrip(_)
LStrip(s) ==
    IF s # <<>> /\ s[1] \in Whitespace THEN LStrip(Tail(s)) ELSE s

RECURSIVE RStrip(_)
RStrip(s) ==
    IF s # <<>> /\ s[Len(s)] \in Whitespace
    THEN RStrip(SubSeq(s, 1, Len(s) - 1))
    ELSE s

Strip(s) == RStrip(LStrip(s))

(***************************************************************************)
(* str.split(','): a left-to-right scan; every comma closes a part, so a   *)
(* string with k commas has k + 1 parts (empty parts are kept).            *)
(***************************************************************************)
RECURSIVE Split(_)
Split(s) ==
    IF s = <<>> THEN << <<>> >>
    ELSE IF s[1] = Comma THEN << <<>> >> \o Split(Tail(s))
    ELSE LET r == Split(Tail(s))
         IN  << <<s[1]>> \o r[1] >> \o Tail(r)

(***************************************************************************)
(* sep.join(items).                                                        *)
(***************************************************************************)
RECURSIVE Join(_, _)
Join(sep, items) ==
    IF items = <<>> THEN <<>>
    ELSE IF Len(items) = 1 THEN items[1]
    ELSE items[1] \o sep \o Join(sep, Tail(items))

MapStrip(items) == [i \in 1..Len(items) |-> Strip(items[i])]

(***************************************************************************)
(* CommaSeparatedEmailField.get_prep_value.                                *)
(***************************************************************************)
get_prep_value_no_space(val) ==
    IF val.kind = "str" THEN val
    ELSE PyStr(Join(<<",">>, MapStrip(val.v)))

get_prep_value(val) ==
    IF val.kind = "str" THEN val
    ELSE PyStr(Join(<<",", " ">>, MapStrip(val.v)))

(***************************************************************************)
(* CommaSeparatedEmailField.to_python.                                     *)
(***************************************************************************)
to_python_no_empty_case(val) ==
    IF val.kind = "str" THEN PyList(MapStrip(Split(val.v))) ELSE val

to_python_keep_space(val) ==
    IF val.kind = "str"
    THEN IF val.v = <<>> THEN PyList(<<>>)
         ELSE LET parts == Split(val.v)
              IN  PyList([i \in 1..Len(parts) |-> RStrip(parts[i])])
    ELSE val

to_python(val) ==
    IF val.kind = "str"
    THEN IF val.v = <<>> THEN PyList(<<>>) ELSE PyList(MapStrip(Split(val.v)))
    ELSE val

(***************************************************************************)
(* CommaSeparatedEmailField.from_db_value.                                 *)
(***************************************************************************)
from_db_value(val) == to_python(val)

IdleField ==
    /\ value = PyNone
    /\ prepped = Unset
    /\ parsed = Unset
    /\ fop = "init"

(***************************************************************************)
(* Template engines.  TEMPLATES is an ordered list of descriptors, each    *)
(* with a BACKEND and an optional NAME; an engine without a NAME is named  *)
(* after its backend's module ('django', 'jinja2').  Names are unique.     *)
(***************************************************************************)
NotSet == "NotSet"
DjangoBackend == "django.template.backends.django.DjangoTemplates"
Jinja2Backend == "django.template.backends.jinja2.Jinja2"
Backends == {DjangoBackend, Jinja2Backend}
Descriptors == [NAME : {NotSet, "mail"}, BACKEND : Backends]

DefaultName(backend) == IF backend = DjangoBackend THEN "django" ELSE "jinja2"
EngineName(d) == IF d.NAME = NotSet THEN DefaultName(d.BACKEND) ELSE d.NAME

UniqueNames(engs) ==
    \A i, j \in 1..Len(engs) : EngineName(engs[i]) = EngineName(engs[j]) => i = j

EngineLists == {engs \in UNION {[1..k -> Descriptors] : k \in 0..MaxEngines} :
                   UniqueNames(engs)}
PreferredNames == {NotSet, "django", "jinja2", "mail", "nothing"}

NoEngine == [status |-> "unset", index |-> 0]
EngineError == [status |-> "InvalidTemplateEngineError", index |-> 0]

\* template_engines[alias]
Lookup(engs, alias) ==
    LET hits == {i \in 1..Len(engs) : EngineName(engs[i]) = alias}
    IN  IF hits = {} THEN EngineError
        ELSE [status |-> "ok", index |-> CHOOSE i \in hits : TRUE]

(***************************************************************************)
(* settings.get_template_engine: the engine named by                       *)
(* POST_OFFICE['TEMPLATE_ENGINE'], 'django' when that is not set.          *)
(***************************************************************************)
get_template_engine_first_when_unset(engs, pref) ==
    IF pref = NotSet
    THEN IF engs = <<>> THEN EngineError ELSE [status |-> "ok", index |-> 1]
    ELSE Lookup(engs, pref)

get_template_engine_jinja2_default(engs, pref) ==
    Lookup(engs, IF pref = NotSet THEN "jinja2" ELSE pref)

get_template_engine_fallback(engs, pref) ==
    LET r == Lookup(engs, IF pref = NotSet THEN "django" ELSE pref)
    IN  IF r.status # "ok" /\ engs # <<>> THEN [status |-> "ok", index |-> 1] ELSE r

get_template_engine(engs, pref) ==
    Lookup(engs, IF pref = NotSet THEN "django" ELSE pref)

IdleEngine ==
    /\ engines = << [NAME |-> NotSet, BACKEND |-> DjangoBackend] >>
    /\ preferred = NotSet
    /\ selected = NoEngine

GetTemplateEngine ==
    /\ selected = NoEngine
    /\ selected' = get_template_engine(engines, preferred)
    /\ UNCHANGED <<engines, preferred, fieldVars, renderVars, formVars, mailVars, logVars>>

(***************************************************************************)
(* Templates and rendering.  A template text is a sequence of tokens: a    *)
(* literal text or a placeholder {{ name }}.  Rendering replaces each      *)
(* placeholder by the context's value for its name (nothing when the       *)
(* context has none) and concatenates.                                     *)
(***************************************************************************)
Text(s) == [kind |-> "text", s |-> s]
Var(n) == [kind |-> "var", s |-> n]
VarNames == {"name", "other"}
Tokens == {Text("Subject ")} \cup {Var(n) : n \in VarNames}
TemplateTexts == UNION {[1..k -> Tokens] : k \in 0..MaxTokens}
Templates == [subject : TemplateTexts, content : TemplateTexts,
              html_content : TemplateTexts]
ContextValue(n) == IF n = "name" THEN "test" ELSE "x"
Contexts == {[n \in D |-> ContextValue(n)] : D \in SUBSET VarNames}

RenderToken(tok, ctx) ==
    IF tok.kind = "text" THEN <<tok.s>>
    ELSE IF tok.s \in DOMAIN ctx THEN <<ctx[tok.s]>>
    ELSE <<>>

RECURSIVE Render(_, _)
Render(text, ctx) ==
    IF text = <<>> THEN <<>>
    ELSE RenderToken(text[1], ctx) \o Render(Tail(text), ctx)

NoTemplate == [subject |-> <<>>, content |-> <<>>, html_content |-> <<>>]
NoContext == [n \in {} |-> "x"]
NoMessage == [status |-> "unset", subject |-> <<>>, body |-> <<>>,
              alternatives |-> <<>>]

(***************************************************************************)
(* Email.email_message for an Email with a template: the three parts of    *)
(* the template are rendered by the selected engine with the email's       *)
(* context; the selector's error propagates.                               *)
(***************************************************************************)
email_message_html_without_context(engs, pref, tpl, ctx) ==
    IF get_template_engine(engs, pref).status # "ok"
    THEN [NoMessage EXCEPT !.status = "InvalidTemplateEngineError"]
    ELSE [status |-> "ok",
          subject |-> Render(tpl.subject, ctx),
          body |-> Render(tpl.content, ctx),
          alternatives |-> << Render(tpl.html_content, NoContext) >>]

email_message(engs, pref, tpl, ctx) ==
    IF get_template_engine(engs, pref).status # "ok"
    THEN [NoMessage EXCEPT !.status = "InvalidTemplateEngineError"]
    ELSE [status |-> "ok",
          subject |-> Render(tpl.subject, ctx),
          body |-> Render(tpl.content, ctx),
          alternatives |-> << Render(tpl.html_content, ctx) >>]

IdleRender ==
    /\ template = NoTemplate
    /\ context = NoContext
    /\ message = NoMessage

EmailMessage ==
    /\ message = NoMessage
    /\ message' = email_message(engines, preferred, template, context)
    /\ UNCHANGED <<template, context, fieldVars, engineVars, formVars, mailVars, logVars>>

(***************************************************************************)
(* The field: a value is prepared for the database (GetPrepValue), read    *)
(* back (FromDbValue), or converted directly (ToPython).                   *)
(***************************************************************************)
GetPrepValue ==
    /\ fop = "init"
    /\ value.kind \in {"str", "list"}
    /\ prepped' = get_prep_value(value)
    /\ fop' = "prep"
    /\ UNCHANGED <<value, parsed, engineVars, renderVars, formVars,
                   mailVars, logVars>>

FromDbValue ==
    /\ fop = "prep"
    /\ parsed' = from_db_value(prepped)
    /\ fop' = "load"
    /\ UNCHANGED <<value, prepped, engineVars, renderVars, formVars,
                   mailVars, logVars>>

ToPython ==
    /\ fop = "init"
    /\ parsed' = to_python(value)
    /\ fop' = "to_python"
    /\ UNCHANGED <<value, prepped, engineVars, renderVars, formVars,
                   mailVars, logVars>>

(***************************************************************************)
(* EmailTemplateAdminFormSet.  Each form's cleaned_data holds the parent   *)
(* template (by id) and a language.  The language field is a ChoiceField   *)
(* over settings.LANGUAGES with required=False, so it is one of the        *)
(* choices or the empty string.                                            *)
(***************************************************************************)
LanguageChoices == {"en", "de"}
Languages == LanguageChoices \cup {""}
TemplateIds == {1, 2}
CleanedData == [default_template : TemplateIds, language : Languages]
FormLists == UNION {[1..k -> CleanedData] : k \in 0..MaxForms}

(***************************************************************************)
(* EmailTemplateAdminFormSet.clean: the loop over self.forms from form i   *)
(* on, with the pairs seen so far in data.  On a duplicate the message is  *)
(* built from dict(choices)[language], a KeyError when the language is no  *)
(* choice, and the ValidationError is raised.                              *)
(***************************************************************************)
RECURSIVE CleanFrom(_, _, _)
CleanFrom(fs, i, data) ==
    IF i > Len(fs) THEN "ok"
    ELSE LET key == <<fs[i].default_template, fs[i].language>>
         IN  IF key \in data
             THEN IF fs[i].language \in LanguageChoices
                  THEN "ValidationError"
                  ELSE "KeyError"
             ELSE CleanFrom(fs, i + 1, data \cup {key})

clean(fs) == CleanFrom(fs, 1, {})

IdleForm ==
    /\ forms = <<>>
    /\ cleanResult = "unset"

Clean ==
    /\ cleanResult = "unset"
    /\ cleanResult' = clean(forms)
    /\ UNCHANGED <<forms, fieldVars, engineVars, renderVars, mailVars, logVars>>

(***************************************************************************)
(* Email rows and EmailAdmin.requeue.                                      *)
(***************************************************************************)
STATUS == {"sent", "failed", "queued"}
Subjects == {"s1", "s2"}
EmailIds == 1..MaxEmails
EmailRows == [status : STATUS, subject : Subjects]

\* queryset.update(status=STATUS.queued)
update_selected_and_sent(rows, sel) ==
    [e \in DOMAIN rows |->
        IF e \in sel \/ rows[e].status = "sent"
        THEN [rows[e] EXCEPT !.status = "queued"]
        ELSE rows[e]]

update(rows, sel) ==
    [e \in DOMAIN rows |->
        IF e \in sel THEN [rows[e] EXCEPT !.status = "queued"] ELSE rows[e]]

IdleMail ==
    /\ emails = [e \in EmailIds |-> [status |-> "queued", subject |-> "s1"]]
    /\ selection = {}
    /\ mailOp = "init"

Requeue ==
    \E sel \in SUBSET EmailIds :
        /\ emails' = update(emails, sel)
        /\ selection' = sel
        /\ mailOp' = IF mailOp # "init" /\ sel = selection
                     THEN "requeue_again"
                     ELSE "requeue"
        /\ UNCHANGED <<fieldVars, engineVars, renderVars, formVars, logVars>>

(***************************************************************************)
(* Logging.  The loggers form a chain: logger 1 is 'post_office', logger   *)
(* i + 1 is the parent of logger i, and logger depth (the root) has no     *)
(* parent.  handlers[i] is the number of handlers of logger i.             *)
(***************************************************************************)
None == "None"
Levels == {"DEBUG", "INFO"}
LevelArgs == Levels \cup {None}

HasParent(i) == i < depth
Parent(i) == i + 1

IdleLog ==
    /\ depth = 1
    /\ handlers = [i \in 1..1 |-> 0]
    /\ level = "NOTSET"
    /\ pc = "idle"
    /\ cur = 1
    /\ arg = None
    /\ steps = 0
    /\ calls = 0
    /\ added = 0
    /\ outcome = "none"
    /\ handlersAtCall = handlers
    /\ levelAtCall = level

\* setup_loghandlers(level) is entered: logger = getLogger('post_office')
SetupLoghandlers ==
    /\ pc = "idle"
    /\ calls < MaxCalls
    /\ \E lvl \in LevelArgs : arg' = lvl
    /\ pc' = "walk"
    /\ cur' = 1
    /\ steps' = 0
    /\ calls' = calls + 1
    /\ outcome' = "running"
    /\ handlersAtCall' = handlers
    /\ levelAtCall' = level
    /\ UNCHANGED <<depth, handlers, level, added>>
    /\ UNCHANGED <<fieldVars, engineVars, renderVars, formVars, mailVars>>

\* _has_effective_handler returns True: nothing is configured
FoundHandler ==
    /\ pc = "walk"
    /\ handlers[cur] > 0
    /\ pc' = "idle"
    /\ outcome' = "unchanged"
    /\ UNCHANGED <<depth, handlers, level, cur, arg, steps, calls, added,
                   handlersAtCall, levelAtCall>>
    /\ UNCHANGED <<fieldVars, engineVars, renderVars, formVars, mailVars>>

\* one turn of the loop: logger = logger.parent
ClimbToParent ==
    /\ pc = "walk"
    /\ handlers[cur] = 0
    /\ HasParent(cur)
    /\ cur' = Parent(cur)
    /\ steps' = steps + 1
    /\ UNCHANGED <<depth, handlers, level, pc, arg, calls, added, outcome,
                   handlersAtCall, levelAtCall>>
    /\ UNCHANGED <<fieldVars, engineVars, renderVars, formVars, mailVars>>

\* _has_effective_handler returns False: setLevel(level), which raises a
\* TypeError for None, then addHandler(StreamHandler())
Configure ==
    /\ pc = "walk"
    /\ handlers[cur] = 0
    /\ ~HasParent(cur)
    /\ pc' = "idle"
    /\ IF arg = None
       THEN /\ outcome' = "TypeError"
            /\ UNCHANGED <<level, handlers, added>>
       ELSE /\ level' = arg
            /\ handlers' = [handlers EXCEPT ![1] = @ + 1]
            /\ added' = added + 1
            /\ outcome' = "configured"
    /\ UNCHANGED <<depth, cur, arg, steps, calls, handlersAtCall, levelAtCall>>
    /\ UNCHANGED <<fieldVars, engineVars, renderVars, formVars, mailVars>>

(***************************************************************************)
(* Specifications, one per component; the other components stand still.    *)
(***************************************************************************)
InitField ==
    /\ IdleEngine /\ IdleRender /\ IdleForm /\ IdleMail /\ IdleLog
    /\ \/ \E s \in StringsUpTo(MaxStrLen) : value = PyStr(s)
       \/ \E l \in ListsUpTo(MaxListLen, MaxElemLen) : value = PyList(l)
       \/ value = PyNone
    /\ prepped = Unset
    /\ parsed = Unset
    /\ fop = "init"

NextField == GetPrepValue \/ FromDbValue \/ ToPython

SpecField == InitField /\ [][NextField]_vars

InitEngine ==
    /\ IdleField /\ IdleRender /\ IdleForm /\ IdleMail /\ IdleLog
    /\ engines \in EngineLists
    /\ preferred \in PreferredNames
    /\ selected = NoEngine

NextEngine == GetTemplateEngine

SpecEngine == InitEngine /\ [][NextEngine]_vars

InitRender ==
    /\ IdleField /\ IdleForm /\ IdleMail /\ IdleLog
    /\ engines = << [NAME |-> NotSet, BACKEND |-> DjangoBackend] >>
    /\ preferred \in {NotSet, "nothing"}
    /\ selected = NoEngine
    /\ template \in Templates
    /\ context \in Contexts
    /\ message = NoMessage

NextRender == EmailMessage

SpecRender == InitRender /\ [][NextRender]_vars

InitForm ==
    /\ IdleField /\ IdleEngine /\ IdleRender /\ IdleMail /\ IdleLog
    /\ forms \in FormLists
    /\ cleanResult = "unset"

NextForm == Clean

SpecForm == InitForm /\ [][NextForm]_vars

InitMail ==
    /\ IdleField /\ IdleEngine /\ IdleRender /\ IdleForm /\ IdleLog
    /\ emails \in [EmailIds -> EmailRows]
    /\ selection = {}
    /\ mailOp = "init"

NextMail == Requeue

SpecMail == InitMail /\ [][NextMail]_vars

InitLog ==
    /\ IdleField /\ IdleEngine /\ IdleRender /\ IdleForm /\ IdleMail
    /\ depth \in 1..MaxDepth
    /\ handlers \in [1..depth -> {0, 1}]
    /\ level = "NOTSET"
    /\ pc = "idle"
    /\ cur = 1
    /\ arg = None
    /\ steps = 0
    /\ calls = 0
    /\ added = 0
    /\ outcome = "none"
    /\ handlersAtCall = handlers
    /\ levelAtCall = level

NextLog == SetupLoghandlers \/ FoundHandler \/ ClimbToParent \/ Configure

SpecLog == InitLog /\ [][NextLog]_vars

(***************************************************************************)
(* Vocabulary of the field's claims, stated by positions in the string     *)
(* rather than by the scans above.                                         *)
(***************************************************************************)
IsTrimmed(s) ==
    s = <<>> \/ (s[1] \notin Whitespace /\ s[Len(s)] \notin Whitespace)

CommaFree(s) == \A i \in 1..Len(s) : s[i] # Comma

\* r is p without its leading and trailing whitespace
IsTrimOf(r, p) ==
    /\ IsTrimmed(r)
    /\ \E i \in 1..(Len(p) + 1) : \E j \in 0..Len(p) :
          /\ r = SubSeq(p, i, j)
          /\ \A k \in 1..(i - 1) : p[k] \in Whitespace
          /\ \A k \in (j + 1)..Len(p) : p[k] \in Whitespace

CommaPositions(s) == {i \in 1..Len(s) : s[i] = Comma}

\* the position of the k-th comma of s; 0 for k = 0, Len(s) + 1 past the last
Boundary(s, k) ==
    IF k = 0 THEN 0
    ELSE IF k > Cardinality(CommaPositions(s)) THEN Len(s) + 1
    ELSE CHOOSE i \in CommaPositions(s) :
            Cardinality({j \in CommaPositions(s) : j <= i}) = k

\* the text between the (k-1)-th and the k-th comma of s
Segment(s, k) == SubSeq(s, Boundary(s, k - 1) + 1, Boundary(s, k) - 1)

\* where the k-th item starts in the ", "-joined string of items
JoinOffset(items, k) ==
    LET RECURSIVE Off(_)
        Off(i) == IF i = 1 THEN 0 ELSE Off(i - 1) + Len(Strip(items[i - 1])) + 2
    IN  Off(k)

(***************************************************************************)
(* C1 (as amended): for every sequence L of trimmed, comma-free strings    *)
(* other than the one-element sequence holding the empty string, reading   *)
(* back the prepared value gives L: to_python(get_prep_value(L)) = L.      *)
(***************************************************************************)
C1_Case ==
    /\ fop = "load"
    /\ value.kind = "list"
    /\ \A i \in 1..Len(value.v) : IsTrimmed(value.v[i]) /\ CommaFree(value.v[i])

\* C1 (as amended): the round trip gives L back unless L is [""]
C1_RoundTripExceptSingleEmpty ==
    (C1_Case /\ value.v # << <<>> >>) => parsed = PyList(value.v)

C1_Witness ==
    /\ C1_Case
    /\ Len(value.v) = 2
    /\ value.v[1] = <<>>
    /\ value.v[2] # <<>>
    /\ parsed = PyList(value.v)

\* C1 as stated: the round trip holds for every such L, [""] included
C1_RoundTripAll == C1_Case => parsed = PyList(value.v)

(***************************************************************************)
(* C2: get_prep_value returns a string input unchanged, trimmed or not;    *)
(* any other input is taken as a sequence of strings and the result is     *)
(* its elements, each trimmed, joined with ", ".                           *)
(***************************************************************************)
C2_JoinedTrimmed(items, out) ==
    /\ \A k \in 1..Len(items) :
          LET off == JoinOffset(items, k)
              n == Len(Strip(items[k]))
          IN  /\ IsTrimOf(SubSeq(out, off + 1, off + n), items[k])
              /\ k < Len(items) => SubSeq(out, off + n + 1, off + n + 2) = <<",", " ">>
    /\ Len(out) = IF items = <<>> THEN 0
                  ELSE JoinOffset(items, Len(items)) + Len(Strip(items[Len(items)]))

\* C2: a string passes through; a sequence is trimmed and joined with ", "
C2_Serialize ==
    fop = "prep" =>
        /\ value.kind = "str" => prepped = value
        /\ value.kind = "list" =>
              /\ prepped.kind = "str"
              /\ C2_JoinedTrimmed(value.v, prepped.v)

C2_Witness ==
    /\ fop = "prep"
    /\ value.kind = "list"
    /\ Len(value.v) = 2
    /\ ~IsTrimmed(value.v[1])
    /\ prepped.v = <<"a", ",", " ", "a">>

(***************************************************************************)
(* C3: to_python (and from_db_value) of the empty string is the empty      *)
(* sequence; of any other string, the texts between its commas, each       *)
(* trimmed, in order, with no check of email syntax; a non-string is       *)
(* returned unchanged.                                                     *)
(***************************************************************************)
C3_ParseOf(input, out) ==
    /\ input.kind # "str" => out = input
    /\ input.kind = "str" =>
          /\ out.kind = "list"
          /\ input.v = <<>> => out.v = <<>>
          /\ input.v # <<>> =>
                /\ Len(out.v) = Cardinality(CommaPositions(input.v)) + 1
                /\ \A k \in 1..Len(out.v) :
                      IsTrimOf(out.v[k], Segment(input.v, k))

\* C3: both parsing entry points split on ',' and trim, '' gives []
C3_Parse ==
    /\ fop = "to_python" => C3_ParseOf(value, parsed)
    /\ fop = "load" => C3_ParseOf(prepped, parsed)

C3_Witness ==
    /\ fop = "to_python"
    /\ value = PyStr(<<"a", " ", ",", " ">>)
    /\ parsed = PyList(<< <<"a">>, <<>> >>)

(***************************************************************************)
(* Vocabulary of the engine claims.                                        *)
(***************************************************************************)
Configured(name) == \E i \in 1..Len(engines) : EngineName(engines[i]) = name

Returned(name) ==
    /\ selected.status = "ok"
    /\ selected.index \in 1..Len(engines)
    /\ EngineName(engines[selected.index]) = name

C6_PreferredOrError ==
    (preferred # NotSet /\ selected # NoEngine) =>
        IF Configured(preferred)
        THEN Returned(preferred)
        ELSE selected.status = "InvalidTemplateEngineError" /\ selected.index = 0

C6_Witness ==
    /\ preferred = "nothing"
    /\ Len(engines) = 2
    /\ EngineName(engines[1]) = "django"
    /\ EngineName(engines[2]) = "jinja2"
    /\ selected = EngineError

(***************************************************************************)
(* C7: for an Email with a template and a context, email_message() gives   *)
(* a message whose subject, body and first HTML alternative are the        *)
(* template's subject, content and html_content with every placeholder     *)
(* replaced by the context's value for its name, all three with the same   *)
(* context.                                                                *)
(***************************************************************************)
\* out is text with each placeholder replaced by its value in ctx
C7_Substituted(text, ctx, out) ==
    LET piece(i) == IF text[i].kind = "text" THEN text[i].s
                    ELSE IF text[i].s \in DOMAIN ctx THEN ctx[text[i].s]
                    ELSE ""
        pieces == [i \in 1..Len(text) |-> piece(i)]
        NonEmpty(x) == x # ""
    IN  out = SelectSeq(pieces, NonEmpty)

HasDuplicate(fs) ==
    \E i, j \in 1..Len(fs) :
        /\ i < j
        /\ fs[i].default_template = fs[j].default_template
        /\ fs[i].language = fs[j].language

\* C8: ValidationError exactly on a duplicate pair, acceptance otherwise
C8_ValidationErrorIffDuplicate ==
    cleanResult # "unset" =>
        /\ cleanResult = "ValidationError" <=> HasDuplicate(forms)
        /\ ~HasDuplicate(forms) => cleanResult = "ok"

(***************************************************************************)
(* C9: requeue sets the status of every selected email to queued whatever  *)
(* it was, changes neither the status of an email outside the selection    *)
(* nor any other field of a selected one, and a second run on the same     *)
(* selection changes nothing.                                              *)
(***************************************************************************)
C9_RequeueFrame ==
    [][ /\ \A e \in EmailIds :
             /\ e \in selection' => /\ emails'[e].status = "queued"
                                    /\ emails'[e].subject = emails[e].subject
             /\ e \notin selection' => emails'[e] = emails[e]
        /\ mailOp' = "requeue_again" => emails' = emails
      ]_vars

C9_Witness ==
    /\ mailOp = "requeue_again"
    /\ \E e \in EmailIds : e \in selection /\ emails[e].status = "queued"
    /\ \E e \in EmailIds : e \notin selection /\ emails[e].status = "sent"
    /\ \E e \in EmailIds : e \notin selection /\ emails[e].status = "failed"

(***************************************************************************)
(* C10: setup_loghandlers adds one stream handler to the 'post_office'     *)
(* logger and sets its level exactly when neither the logger nor any       *)
(* ancestor had a handler, and otherwise leaves handlers and level         *)
(* unchanged; it never adds more than one handler over any number of       *)
(* calls, and the ancestor walk ends within the length of the chain.       *)
(***************************************************************************)
Unconfigured == \A i \in 1..depth : handlersAtCall[i] = 0

\* C10: configured exactly when unconfigured, one handler at most, bounded walk
C10_ConfiguresOnce ==
    /\ (pc = "idle" /\ calls > 0) =>
          IF Unconfigured
          THEN /\ handlers = [handlersAtCall EXCEPT ![1] = @ + 1]
               /\ level = arg
          ELSE /\ handlers = handlersAtCall
               /\ level = levelAtCall
    /\ added <= 1
    /\ steps < depth
    /\ cur \in 1..depth

=============================================================================
